---- MODULE Spec2Model ----
(***************************************************************************)
(* The MAITRI single-page client (src/frontend/tailwind.config.js): the    *)
(* App component's state, its event handlers and asynchronous remote       *)
(* calls, the mood aggregation computed at render, and the startTimer      *)
(* countdown widgets.                                                      *)
(*                                                                         *)
(* Text that the code trims, lowercases or splits is a sequence of         *)
(* one-character strings; other text is a TLA+ string.  An optional value  *)
(* (null / undefined / a missing field) is <<>>, a present one is <<v>>.   *)
(***************************************************************************)
EXTENDS Integers, Sequences, FiniteSets, TLC

VARIABLES
    storage,        \* localStorage["user"]: Null or Some(JSON text)
    user,           \* useState user: Null or Some(session)
    page,           \* useState page
    username,       \* useState username (login form input)
    activeSection,  \* useState activeSection
    showProfile,    \* useState showProfile
    moods,          \* useState moods (formatted entries)
    mood,           \* useState mood (form input)
    stress,         \* useState stress (form input)
    sleep,          \* useState sleep (form input)
    summary,        \* useState summary
    tip,            \* useState tip
    status,         \* useState status
    alertMsg,       \* text of the most recent alert(), "" before the first
    pending,        \* remote calls awaiting their response, in issue order
    late,           \* the mood-list response that landed last was of an overtaken call
    els,            \* the timer-readout elements of the mounted drills section
    intervals,      \* live setInterval tick sources created by startTimer
    shown           \* per mounted readout: whether startTimer ran on it never,
                    \* once or more often, and, when once, every value written
                    \* to its textContent, in order

vars == <<storage, user, page, username, activeSection, showProfile, moods,
          mood, stress, sleep, summary, tip, status, alertMsg, pending, late,
          els, intervals, shown>>

appVars == <<storage, user, page, username, activeSection, showProfile, moods,
             mood, stress, sleep, summary, tip, status, alertMsg, pending,
             late>>

timerVars == <<els, intervals, shown>>

----------------------------------------------------------------------------
(* Bounds of the model *)

\* most remote calls of one kind outstanding at once
MaxPending == 2
\* longest mood list the remote store returns
MaxMoods == 3
\* the countdown of the focus-timer button, 60 s in the source, scaled down
FocusSecs == 2
\* the countdown of the orbit-timer button, 90 s in the source, scaled down
OrbitSecs == 3
\* most tick sources alive at once
MaxTimers == 2

----------------------------------------------------------------------------
(* Optional values *)

Null == <<>>

Some(x) == <<x>>

Remove(s, i) == SubSeq(s, 1, i - 1) \o SubSeq(s, i + 1, Len(s))

----------------------------------------------------------------------------
(* Text as character sequences: String.prototype.trim, toLowerCase, split *)

IsSpace(c) == c = " "

ToLowerChar(c) ==
    CASE c = "A" -> "a"
      [] c = "H" -> "h"
      [] c = "I" -> "i"
      [] c = "M" -> "m"
      [] c = "S" -> "s"
      [] c = "T" -> "t"
      [] OTHER -> c

ToLowerCase(s) == [k \in 1..Len(s) |-> ToLowerChar(s[k])]

RECURSIVE TrimStart(_)
TrimStart(s) ==
    IF s # <<>> /\ IsSpace(Head(s)) THEN TrimStart(Tail(s)) ELSE s

RECURSIVE TrimEnd(_)
TrimEnd(s) ==
    IF s # <<>> /\ IsSpace(s[Len(s)])
    THEN TrimEnd(SubSeq(s, 1, Len(s) - 1))
    ELSE s

Trim(s) == TrimEnd(TrimStart(s))

\* s.split("T")[0]: the text before the first "T"
RECURSIVE SplitTFirst(_)
SplitTFirst(s) ==
    IF s = <<>> \/ Head(s) = "T"
    THEN <<>>
    ELSE <<Head(s)>> \o SplitTFirst(Tail(s))

AMIT == <<"a", "m", "i", "t">>

NEUTRAL == <<"n", "e", "u", "t", "r", "a", "l">>

\* new Date().toISOString().split("T")[0] during the modelled visit
Today == <<"d", "9">>

----------------------------------------------------------------------------
(* Session record and its JSON text *)

UserIds == {1, 2}

Usernames == {"", "ann"}

Session(u, id) == [username |-> u, user_id |-> id]

JsonStringify(s) == <<"username", s.username, "user_id", s.user_id>>

JsonParse(j) == [username |-> j[2], user_id |-> j[4]]

\* JSON.parse(localStorage.getItem("user"))
LoadUser(st) == IF st = Null THEN Null ELSE Some(JsonParse(st[1]))

----------------------------------------------------------------------------
(* Remote calls in flight.  A call keeps what its continuation closes over: *)
(* handleAuth the username typed at the click, the reads and the mood POST  *)
(* the session of the render that issued them.  stale marks a GET /moods    *)
(* issued before one whose response has already landed.                     *)

(* pending[kind] lists the outstanding calls of a kind in issue order.       *)

AuthKinds == {"login", "signup"}

Kinds == {"auth", "moods", "summary", "tip", "post"}

Reads == {"moods", "summary", "tip"}

\* the POST of handleAuth: the endpoint and the form sent to it
Request(path, u) == [path |-> path, username |-> u]

\* a call of the dashboard: the path and the user_id it is sent for
Call(path, id) == [path |-> path, user_id |-> id, stale |-> FALSE]

Send(q, kind, r) == [q EXCEPT ![kind] = Append(@, r)]

\* fetchMoods(); fetchSummary(); fetchTip(); each sends its GET before the next runs
FetchAll(q, id) ==
    Send(Send(Send(q, "moods", Call("moods", id)),
              "summary", Call("weekly_summary", id)),
         "tip", Call("wellness_tip", id))

\* useEffect(..., [user, page]) run with the values u, p of the new render
UseEffectFetch(q, u, p) ==
    IF u # Null /\ p = "dashboard" THEN FetchAll(q, u[1].user_id) ELSE q

\* room for one more call of each read
RoomForReads(q) == \A k \in Reads : Len(q[k]) < MaxPending

\* the response of call i of a kind lands, whatever was issued before or after it
Land(q, kind, i) ==
    [q EXCEPT ![kind] =
        Remove([k \in 1..Len(@) |->
                   IF k < i /\ kind = "moods"
                   THEN [@[k] EXCEPT !.stale = TRUE]
                   ELSE @[k]], i)]

----------------------------------------------------------------------------
(* The drills section and its two timer readouts *)

TimerIds == {"focus-timer", "orbit-timer"}

Sections == {"dashboard", "analytics", "remedies", "guidance", "drills", "chatbot"}

Mounted(p, s) == p = "dashboard" /\ s = "drills"

NotStarted == [starts |-> "never", log |-> <<>>]

ReadyEl == [present |-> TRUE, text |-> "Ready", ticking |-> FALSE]

AbsentEl == [present |-> FALSE, text |-> "", ticking |-> FALSE]

\* React commits the render for page p2 and section s2: the drills section is
\* created with fresh readouts, kept as it is, or removed from the document.
\* A tick source keeps the element it looked up, in the document or not.
Render(p2, s2) ==
    /\ els' = IF ~Mounted(p2, s2) THEN [id \in TimerIds |-> AbsentEl]
              ELSE IF Mounted(page, activeSection) THEN els
              ELSE [id \in TimerIds |-> ReadyEl]
    /\ intervals' = IF Mounted(p2, s2) THEN intervals
                    ELSE [k \in 1..Len(intervals) |->
                             [intervals[k] EXCEPT !.attached = FALSE]]
    /\ shown' = IF Mounted(p2, s2) /\ Mounted(page, activeSection) THEN shown
                ELSE [id \in TimerIds |-> NotStarted]

----------------------------------------------------------------------------
(* Construction: useState initialisers and the first effect run *)

StoredSessions == {Session("ann", 1)}

Init ==
    /\ storage \in {Null} \cup {Some(JsonStringify(s)) : s \in StoredSessions}
    /\ user = LoadUser(storage)
    /\ page = IF user # Null THEN "dashboard" ELSE "home"
    /\ username = ""
    /\ activeSection = "dashboard"
    /\ showProfile = FALSE
    /\ moods = <<>>
    /\ mood = <<>>
    /\ stress = "5"
    /\ sleep = "7"
    /\ summary = ""
    /\ tip = ""
    /\ status = "Offline-ready environment..."
    /\ alertMsg = ""
    /\ pending = UseEffectFetch([k \in Kinds |-> <<>>], user, page)
    /\ late = FALSE
    /\ els = [id \in TimerIds |-> AbsentEl]
    /\ intervals = <<>>
    /\ shown = [id \in TimerIds |-> NotStarted]

----------------------------------------------------------------------------
(* Authentication and the view router *)

\* the Login / Sign Up buttons of the landing screen and the links of the form
SetPage(p) ==
    /\ \/ page = "home" /\ p \in AuthKinds
       \/ page = "login" /\ p = "signup"
       \/ page = "signup" /\ p = "login"
    /\ page' = p
    /\ pending' = UseEffectFetch(pending, user, p)
    /\ Render(p, activeSection)
    /\ UNCHANGED <<storage, user, username, activeSection, showProfile, moods,
                   mood, stress, sleep, summary, tip, status, alertMsg>>
    /\ UNCHANGED late

SetUsername(u) ==
    /\ page \in AuthKinds
    /\ username' = u
    /\ UNCHANGED <<storage, user, page, activeSection, showProfile, moods,
                   mood, stress, sleep, summary, tip, status, alertMsg, pending>>
    /\ UNCHANGED timerVars
    /\ UNCHANGED late

\* handleAuth(page) up to its await: the POST /login or /signup is sent
HandleAuth ==
    /\ page \in AuthKinds
    /\ Len(pending["auth"]) < MaxPending
    /\ pending' = Send(pending, "auth", Request(page, username))
    /\ UNCHANGED <<storage, user, page, username, activeSection, showProfile,
                   moods, mood, stress, sleep, summary, tip, status, alertMsg>>
    /\ UNCHANGED timerVars
    /\ UNCHANGED late

AuthDetails == {"", "Invalid credentials"}

AuthResponses ==
    {[ok |-> TRUE, user_id |-> id, detail |-> ""] : id \in UserIds}
    \cup {[ok |-> FALSE, user_id |-> 0, detail |-> d] : d \in AuthDetails}

\* a handleAuth that would keep the session in memory only
HandleAuthThenSkipsStorage(i, res) ==
    LET newUser == Session(pending["auth"][i].username, res.user_id) IN
    /\ RoomForReads(pending)
    /\ user' = Some(newUser)
    /\ page' = "dashboard"
    /\ pending' = UseEffectFetch(Land(pending, "auth", i), Some(newUser), "dashboard")
    /\ Render("dashboard", activeSection)
    /\ UNCHANGED <<storage, alertMsg>>

\* handleAuth after its await, the rest of the try body
HandleAuthThen(i, res) ==
    LET newUser == Session(pending["auth"][i].username, res.user_id) IN
    /\ RoomForReads(pending)
    /\ storage' = Some(JsonStringify(newUser))
    /\ user' = Some(newUser)
    /\ page' = "dashboard"
    /\ pending' = UseEffectFetch(Land(pending, "auth", i), Some(newUser), "dashboard")
    /\ Render("dashboard", activeSection)
    /\ UNCHANGED alertMsg

\* a handleAuth whose catch would also leave the form for the landing screen
HandleAuthCatchGoesHome(i, res) ==
    /\ alertMsg' = IF res.detail # "" THEN res.detail ELSE "Authentication failed"
    /\ pending' = Land(pending, "auth", i)
    /\ page' = "home"
    /\ Render("home", activeSection)
    /\ UNCHANGED <<storage, user>>

\* the catch of handleAuth
HandleAuthCatch(i, res) ==
    /\ alertMsg' = IF res.detail # "" THEN res.detail ELSE "Authentication failed"
    /\ pending' = Land(pending, "auth", i)
    /\ UNCHANGED <<storage, user, page>>
    /\ UNCHANGED timerVars

\* the response to the POST of call i arrives and handleAuth resumes
HandleAuthDone(i, res) ==
    /\ i \in 1..Len(pending["auth"])
    /\ IF res.ok THEN HandleAuthThen(i, res) ELSE HandleAuthCatch(i, res)
    /\ UNCHANGED <<username, activeSection, showProfile, moods,
                   mood, stress, sleep, summary, tip, status, late>>

\* the profile icon of the navbar
ToggleProfile ==
    /\ page = "dashboard"
    /\ showProfile' = ~showProfile
    /\ UNCHANGED <<storage, user, page, username, activeSection, moods,
                   mood, stress, sleep, summary, tip, status, alertMsg, pending>>
    /\ UNCHANGED timerVars
    /\ UNCHANGED late

\* a logout that would also drop the reads still outstanding
LogoutCancelsReads ==
    /\ page = "dashboard"
    /\ showProfile
    /\ storage' = Null
    /\ user' = Null
    /\ page' = "home"
    /\ pending' = [k \in Kinds |-> IF k \in Reads THEN <<>> ELSE pending[k]]
    /\ Render("home", activeSection)
    /\ UNCHANGED <<username, activeSection, showProfile, moods,
                   mood, stress, sleep, summary, tip, status, alertMsg>>
    /\ UNCHANGED late

\* the Logout button of the profile dropdown
Logout ==
    /\ page = "dashboard"
    /\ showProfile
    /\ storage' = Null
    /\ user' = Null
    /\ page' = "home"
    /\ pending' = UseEffectFetch(pending, Null, "home")
    /\ Render("home", activeSection)
    /\ UNCHANGED <<username, activeSection, showProfile, moods,
                   mood, stress, sleep, summary, tip, status, alertMsg>>
    /\ UNCHANGED late

\* a feature bar that would send the three reads again on every choice
SetActiveSectionRefetches(key) ==
    /\ page = "dashboard"
    /\ key \in Sections
    /\ RoomForReads(pending)
    /\ activeSection' = key
    /\ Render(page, key)
    /\ pending' = UseEffectFetch(pending, user, page)
    /\ UNCHANGED <<storage, user, page, username, showProfile, moods,
                   mood, stress, sleep, summary, tip, status, alertMsg, late>>

\* a button of the horizontal feature bar
SetActiveSection(key) ==
    /\ page = "dashboard"
    /\ key \in Sections
    /\ activeSection' = key
    /\ Render(page, key)
    /\ UNCHANGED <<storage, user, page, username, showProfile, moods,
                   mood, stress, sleep, summary, tip, status, alertMsg, pending>>
    /\ UNCHANGED late

----------------------------------------------------------------------------
(* Remote data: the three reads and the mood submission *)

\* m.mood || d
MoodOr(m, d) == IF m = Null \/ m[1] = <<>> THEN d ELSE m[1]

\* Number.isFinite(x) ? x : 0
FiniteOr0(x) == IF x = Null THEN 0 ELSE x[1]

\* the callback of res.data.map in fetchMoods
FormatEntry(m) ==
    [ date |-> IF m.date = Null \/ m.date[1] = <<>> THEN Today
               ELSE SplitTFirst(m.date[1]),
      stress_level |-> FiniteOr0(m.stress_level),
      sleep_hours |-> FiniteOr0(m.sleep_hours),
      mood |-> IF ToLowerCase(Trim(MoodOr(m.mood, <<>>))) = AMIT
               THEN NEUTRAL
               ELSE MoodOr(m.mood, NEUTRAL) ]

FormatMoods(data) == [k \in 1..Len(data) |-> FormatEntry(data[k])]

Dashboard == page = "dashboard" /\ activeSection = "dashboard"

SetMood(m) ==
    /\ Dashboard
    /\ mood' = m
    /\ UNCHANGED <<storage, user, page, username, activeSection, showProfile,
                   moods, stress, sleep, summary, tip, status, alertMsg, pending>>
    /\ UNCHANGED timerVars
    /\ UNCHANGED late

SetStress(v) ==
    /\ Dashboard
    /\ stress' = v
    /\ UNCHANGED <<storage, user, page, username, activeSection, showProfile,
                   moods, mood, sleep, summary, tip, status, alertMsg, pending>>
    /\ UNCHANGED timerVars
    /\ UNCHANGED late

SetSleep(v) ==
    /\ Dashboard
    /\ sleep' = v
    /\ UNCHANGED <<storage, user, page, username, activeSection, showProfile,
                   moods, mood, stress, summary, tip, status, alertMsg, pending>>
    /\ UNCHANGED timerVars
    /\ UNCHANGED late

\* a submitMood without the validation of the mood field
SubmitMoodUnchecked ==
    /\ Dashboard
    /\ Len(pending["post"]) < MaxPending
    /\ pending' = Send(pending, "post", Call("moods", user[1].user_id))
    /\ UNCHANGED <<storage, user, page, username, activeSection, showProfile,
                   moods, mood, stress, sleep, summary, tip, status, alertMsg, late>>
    /\ UNCHANGED timerVars

\* submitMood up to its await: the validation, then the POST /moods is sent
SubmitMood ==
    /\ Dashboard
    /\ IF mood = <<>>
       THEN /\ alertMsg' = "Please enter your mood!"
            /\ UNCHANGED pending
       ELSE /\ Len(pending["post"]) < MaxPending
            /\ pending' = Send(pending, "post", Call("moods", user[1].user_id))
            /\ UNCHANGED alertMsg
    /\ UNCHANGED <<storage, user, page, username, activeSection, showProfile,
                   moods, mood, stress, sleep, summary, tip, status, late>>
    /\ UNCHANGED timerVars

\* a submitMood that would refresh the mood list and the summary only
SubmitMoodThenSkipsTip(i) ==
    /\ RoomForReads(pending)
    /\ mood' = <<>>
    /\ pending' =
          LET q == Land(pending, "post", i)
              r == pending["post"][i]
          IN  Send(Send(q, "moods", Call("moods", r.user_id)),
                   "summary", Call("weekly_summary", r.user_id))

\* submitMood after its await: setMood(""), then the three reads, under the
\* session of the render whose button was clicked
SubmitMoodThen(i) ==
    /\ RoomForReads(pending)
    /\ mood' = <<>>
    /\ pending' = FetchAll(Land(pending, "post", i), pending["post"][i].user_id)

\* the response to the POST of call i arrives.  A rejection rejects the promise
\* of submitMood, which nothing handles: no statement after the await runs.
SubmitMoodDone(i, ok) ==
    /\ i \in 1..Len(pending["post"])
    /\ IF ok
       THEN SubmitMoodThen(i)
       ELSE /\ pending' = Land(pending, "post", i)
            /\ UNCHANGED mood
    /\ UNCHANGED <<storage, user, page, username, activeSection, showProfile,
                   moods, stress, sleep, summary, tip, status, alertMsg, late>>
    /\ UNCHANGED timerVars

\* a fetchMoods that would drop a response overtaken by a later one
FetchMoodsThenDropsStale(i, res) ==
    IF pending["moods"][i].stale
    THEN UNCHANGED <<moods, status>>
    ELSE /\ moods' = FormatMoods(res.data)
         /\ status' = "Connected to backend"

\* fetchMoods after its await, the rest of the try body
FetchMoodsThen(i, res) ==
    /\ status' = "Connected to backend"
    /\ moods' = FormatMoods(res.data)

\* the catch of fetchMoods
FetchMoodsCatch ==
    /\ status' = " Offline mode"
    /\ UNCHANGED moods

\* the response to the GET of call i arrives.  res.ok: the GET resolved;
\* res.isArray: its body is a list (res.data.map throws otherwise, into the catch)
FetchMoodsDone(i, res) ==
    /\ i \in 1..Len(pending["moods"])
    /\ pending' = Land(pending, "moods", i)
    /\ late' = pending["moods"][i].stale
    /\ IF res.ok /\ res.isArray THEN FetchMoodsThen(i, res) ELSE FetchMoodsCatch
    /\ UNCHANGED <<storage, user, page, username, activeSection, showProfile,
                   mood, stress, sleep, summary, tip, alertMsg>>
    /\ UNCHANGED timerVars

\* a fetchSummary whose catch would also set the status to offline
FetchSummaryCatchGoesOffline ==
    /\ summary' = "No summary available."
    /\ status' = " Offline mode"

\* the catch of fetchSummary
FetchSummaryCatch ==
    /\ summary' = "No summary available."
    /\ UNCHANGED status

\* the response to the GET of call i arrives and fetchSummary resumes
FetchSummaryDone(i, res) ==
    /\ i \in 1..Len(pending["summary"])
    /\ IF res.ok
       THEN /\ summary' = res.text
            /\ UNCHANGED status
       ELSE FetchSummaryCatch
    /\ pending' = Land(pending, "summary", i)
    /\ UNCHANGED <<storage, user, page, username, activeSection, showProfile,
                   moods, mood, stress, sleep, tip, alertMsg, late>>
    /\ UNCHANGED timerVars

\* the catch of fetchTip
FetchTipCatch ==
    /\ tip' = "No tip available."
    /\ UNCHANGED status

\* the response to the GET of call i arrives and fetchTip resumes
FetchTipDone(i, res) ==
    /\ i \in 1..Len(pending["tip"])
    /\ IF res.ok
       THEN /\ tip' = res.text
            /\ UNCHANGED status
       ELSE FetchTipCatch
    /\ pending' = Land(pending, "tip", i)
    /\ UNCHANGED <<storage, user, page, username, activeSection, showProfile,
                   moods, mood, stress, sleep, summary, alertMsg, late>>
    /\ UNCHANGED timerVars

----------------------------------------------------------------------------
(* Mood aggregation computed at every dashboard render *)

\* the label trimmed and lowercased before it is counted
CategoryOfNormalized(m) ==
    LET name == ToLowerCase(Trim(IF m.mood = <<>> THEN NEUTRAL ELSE m.mood)) IN
    IF name = AMIT THEN NEUTRAL ELSE name

\* the category of one entry in the moods.reduce callback
CategoryOf(m) ==
    IF ToLowerCase(Trim(IF m.mood = <<>> THEN NEUTRAL ELSE m.mood)) = AMIT
    THEN NEUTRAL
    ELSE IF m.mood = <<>> THEN NEUTRAL ELSE m.mood

\* acc[name] = (acc[name] || 0) + 1; an object lists its keys in insertion order
Bump(acc, name) ==
    IF \E k \in 1..Len(acc) : acc[k].name = name
    THEN [k \in 1..Len(acc) |->
             IF acc[k].name = name
             THEN [acc[k] EXCEPT !.value = @ + 1]
             ELSE acc[k]]
    ELSE Append(acc, [name |-> name, value |-> 1])

RECURSIVE MoodCounts(_)
MoodCounts(ms) ==
    IF ms = <<>> THEN <<>>
    ELSE Bump(MoodCounts(SubSeq(ms, 1, Len(ms) - 1)), CategoryOf(ms[Len(ms)]))

\* one insertion of a stable sort by descending value
RECURSIVE InsertDesc(_, _)
InsertDesc(sorted, x) ==
    IF sorted = <<>> THEN <<x>>
    ELSE IF sorted[Len(sorted)].value >= x.value THEN Append(sorted, x)
    ELSE Append(InsertDesc(SubSeq(sorted, 1, Len(sorted) - 1), x),
                sorted[Len(sorted)])

RECURSIVE SortDesc(_)
SortDesc(a) ==
    IF a = <<>> THEN <<>>
    ELSE InsertDesc(SortDesc(SubSeq(a, 1, Len(a) - 1)), a[Len(a)])

PieData(ms) == SortDesc(MoodCounts(ms))

----------------------------------------------------------------------------
(* Countdown widgets: startTimer and the callback of its setInterval *)

SecsText(t) == ToString(t) \o "s"

\* "Done" followed by the check mark U+2713, written here in ASCII
DoneText == "Done U+2713"

\* setInterval(..., 1000): the period, in clock steps of 500 ms
Period == 2

\* a startTimer that would clear the earlier intervals of the same readout
StartTimerClearsEarlier(id, secs) ==
    /\ Mounted(page, activeSection)
    /\ Len(intervals) < MaxTimers
    /\ els' = [els EXCEPT ![id] = [@ EXCEPT !.text = SecsText(secs),
                                            !.ticking = TRUE]]
    /\ intervals' = Append(SelectSeq(intervals,
                                     LAMBDA x : ~(x.id = id /\ x.attached)),
                           [id |-> id, attached |-> TRUE,
                            t |-> secs, due |-> Period])
    /\ shown' = [shown EXCEPT ![id] =
                    IF @.starts = "never"
                    THEN [starts |-> "once", log |-> <<SecsText(secs)>>]
                    ELSE [starts |-> "again", log |-> <<>>]]
    /\ UNCHANGED appVars

\* startTimer(id, secs) called by a Start button of the drills section
StartTimer(id, secs) ==
    /\ Mounted(page, activeSection)
    /\ Len(intervals) < MaxTimers
    /\ IF ~els[id].present
       THEN UNCHANGED timerVars
       ELSE /\ els' = [els EXCEPT ![id] = [@ EXCEPT !.text = SecsText(secs),
                                                    !.ticking = TRUE]]
            /\ intervals' = Append(intervals,
                                   [id |-> id, attached |-> TRUE,
                                    t |-> secs, due |-> Period])
            /\ shown' = [shown EXCEPT ![id] =
                            IF @.starts = "never"
                            THEN [starts |-> "once", log |-> <<SecsText(secs)>>]
                            ELSE [starts |-> "again", log |-> <<>>]]
    /\ UNCHANGED appVars

\* an interval callback that would show "0s" before the completion label
TickShowsZero(k) ==
    /\ k \in 1..Len(intervals)
    /\ intervals[k].due = 0
    /\ LET int == intervals[k]
           t == int.t - 1
           text == IF t >= 0 THEN SecsText(t) ELSE DoneText
       IN  /\ IF int.attached
              THEN /\ els' = [els EXCEPT ![int.id] =
                                 [@ EXCEPT !.text = text,
                                           !.ticking = IF t <= 0 THEN FALSE ELSE @]]
                   /\ shown' = [shown EXCEPT ![int.id] =
                                   IF @.starts = "once"
                                   THEN [@ EXCEPT !.log = Append(@, text)]
                                   ELSE @]
              ELSE UNCHANGED <<els, shown>>
           /\ intervals' = IF t <= 0
                           THEN Remove(intervals, k)
                           ELSE [intervals EXCEPT ![k] = [@ EXCEPT !.t = t,
                                                                   !.due = Period]]
    /\ UNCHANGED appVars

\* the interval callback of tick source k runs
Tick(k) ==
    /\ k \in 1..Len(intervals)
    /\ intervals[k].due = 0
    /\ LET int == intervals[k]
           t == int.t - 1
           text == IF t > 0 THEN SecsText(t) ELSE DoneText
       IN  /\ IF int.attached
              THEN /\ els' = [els EXCEPT ![int.id] =
                                 [@ EXCEPT !.text = text,
                                           !.ticking = IF t <= 0 THEN FALSE ELSE @]]
                   /\ shown' = [shown EXCEPT ![int.id] =
                                   IF @.starts = "once"
                                   THEN [@ EXCEPT !.log = Append(@, text)]
                                   ELSE @]
              ELSE UNCHANGED <<els, shown>>
           /\ intervals' = IF t <= 0
                           THEN Remove(intervals, k)
                           ELSE [intervals EXCEPT ![k] = [@ EXCEPT !.t = t,
                                                                   !.due = Period]]
    /\ UNCHANGED appVars

\* time advances by one clock step while no tick source is due
TimePasses ==
    /\ intervals # <<>>
    /\ \A k \in 1..Len(intervals) : intervals[k].due > 0
    /\ intervals' = [k \in 1..Len(intervals) |->
                        [intervals[k] EXCEPT !.due = @ - 1]]
    /\ UNCHANGED <<els, shown>>
    /\ UNCHANGED appVars

----------------------------------------------------------------------------
(* What the user types and what the remote API answers *)

MoodInputs == { <<>>, <<"s", "a", "d">> }

StressInputs == {"5", "9"}

SleepInputs == {"7", "4"}

SummaryTexts == {"Calm week"}

TipTexts == {"Breathe"}

TextResponses(texts) ==
    {[ok |-> TRUE, text |-> x] : x \in texts} \cup {[ok |-> FALSE, text |-> ""]}

RawMoods ==
    { Null,
      Some(<<>>),
      Some(<<"H", "a", "p", "p", "y">>),
      Some(<<"h", "a", "p", "p", "y">>),
      Some(<<" ", "h", "a", "p", "p", "y">>),
      Some(<<"A", "M", "I", "T">>),
      Some(<<" ", "A", "m", "i", "t", " ">>),
      Some(<<"a", "m", "i", "t">>) }

RawEntry(m) ==
    [ mood |-> m, stress_level |-> Some(4), sleep_hours |-> Some(7),
      date |-> Some(<<"d", "1", "T", "0", "8">>) ]

\* a record of the remote store with nothing but its key
BareEntry ==
    [ mood |-> Null, stress_level |-> Null, sleep_hours |-> Null, date |-> Null ]

RawEntries == {RawEntry(m) : m \in RawMoods} \cup {BareEntry}

RECURSIVE ListsUpTo(_, _)
ListsUpTo(S, n) ==
    IF n = 0 THEN { <<>> }
    ELSE LET shorter == ListsUpTo(S, n - 1) IN
         shorter \cup {Append(l, x) : l \in {y \in shorter : Len(y) = n - 1}, x \in S}

MoodsResponse(ok, isArray, data) == [ok |-> ok, isArray |-> isArray, data |-> data]

\* every answer to GET /moods with at most MaxMoods records
AllMoodsResponses ==
    {MoodsResponse(TRUE, TRUE, d) : d \in ListsUpTo(RawEntries, MaxMoods)}
    \cup {MoodsResponse(TRUE, FALSE, <<>>), MoodsResponse(FALSE, FALSE, <<>>)}

\* two different lists, a body that is no list, and a rejection
SomeMoodsResponses ==
    { MoodsResponse(TRUE, TRUE, <<RawEntry(Some(<<"s", "a", "d">>))>>),
      MoodsResponse(TRUE, TRUE, <<BareEntry, RawEntry(Some(<<"A", "M", "I", "T">>))>>),
      MoodsResponse(TRUE, FALSE, <<>>),
      MoodsResponse(FALSE, FALSE, <<>>) }

\* what GET /moods answers for one user: the list kept for that user, or a
\* rejection
MoodsResponsesFor(id) ==
    { MoodsResponse(TRUE, TRUE,
                    IF id = 1 THEN <<RawEntry(Some(<<"s", "a", "d">>))>>
                    ELSE <<RawEntry(Some(<<"g", "l", "a", "d">>))>>),
      MoodsResponse(FALSE, FALSE, <<>>) }

\* onClick of the two Start buttons: startTimer("focus-timer") with the default
\* duration and startTimer("orbit-timer", 90)
StartButtons ==
    { [id |-> "focus-timer", secs |-> FocusSecs],
      [id |-> "orbit-timer", secs |-> OrbitSecs] }

----------------------------------------------------------------------------
(* Specifications *)

SessionNext ==
    \/ \E p \in AuthKinds : SetPage(p)
    \/ \E u \in Usernames : SetUsername(u)
    \/ HandleAuth
    \/ \E i \in 1..Len(pending["auth"]), res \in AuthResponses : HandleAuthDone(i, res)
    \/ ToggleProfile
    \/ Logout
    \/ \E key \in Sections : SetActiveSection(key)

DataNext ==
    \/ \E m \in MoodInputs : SetMood(m)
    \/ SubmitMood
    \/ \E i \in 1..Len(pending["post"]), ok \in BOOLEAN : SubmitMoodDone(i, ok)
    \/ \E i \in 1..Len(pending["moods"]), res \in SomeMoodsResponses : FetchMoodsDone(i, res)
    \/ \E i \in 1..Len(pending["summary"]), res \in TextResponses(SummaryTexts) :
          FetchSummaryDone(i, res)
    \/ \E i \in 1..Len(pending["tip"]), res \in TextResponses(TipTexts) :
          FetchTipDone(i, res)

FormNext ==
    \/ \E m \in MoodInputs : SetMood(m)
    \/ \E v \in StressInputs : SetStress(v)
    \/ \E v \in SleepInputs : SetSleep(v)
    \/ SubmitMood
    \/ \E i \in 1..Len(pending["post"]), ok \in BOOLEAN : SubmitMoodDone(i, ok)
    \/ \E key \in Sections : SetActiveSection(key)

AggNext ==
    \E i \in 1..Len(pending["moods"]), res \in AllMoodsResponses : FetchMoodsDone(i, res)

TimerNext ==
    \/ \E key \in Sections : SetActiveSection(key)
    \/ \E b \in StartButtons : StartTimer(b.id, b.secs)
    \/ \E k \in 1..Len(intervals) : Tick(k)
    \/ TimePasses
    \/ ToggleProfile
    \/ Logout

\* one session after another: login, the mood list and the summary landing,
\* logout; the tip reads stay outstanding
LogoutNext ==
    \/ SetPage("login")
    \/ HandleAuth
    \/ \E i \in 1..Len(pending["auth"]), res \in {r \in AuthResponses : r.ok} :
          HandleAuthDone(i, res)
    \/ ToggleProfile
    \/ Logout
    \/ \E m \in MoodInputs : SetMood(m)
    \/ \E i \in 1..Len(pending["moods"]) :
          \E res \in MoodsResponsesFor(pending["moods"][i].user_id) : FetchMoodsDone(i, res)
    \/ \E i \in 1..Len(pending["summary"]), res \in TextResponses(SummaryTexts) :
          FetchSummaryDone(i, res)

Next == SessionNext \/ FormNext \/ DataNext \/ AggNext \/ TimerNext \/ LogoutNext

\* the whole client
Spec == Init /\ [][Next]_vars

\* authentication, the view router and the effect that issues the reads
SessionSpec == Init /\ [][SessionNext]_vars

\* the reads and the mood submission of a dashboard
DataSpec == Init /\ [][DataNext]_vars

\* the mood form of the dashboard section
FormSpec == Init /\ [][FormNext]_vars

\* the mood list arriving, over every answer of the remote store
AggSpec == Init /\ [][AggNext]_vars

\* the drills section and its countdown widgets
TimerSpec == Init /\ [][TimerNext]_vars

LogoutSpec == Init /\ [][LogoutNext]_vars

----------------------------------------------------------------------------
(* Session properties, checked under SessionSpec *)

\* a response of kind k lands in this step: one call fewer is outstanding
Lands(k) == Len(pending'[k]) < Len(pending[k])

ReadPath(k) ==
    CASE k = "moods" -> "moods"
      [] k = "summary" -> "weekly_summary"
      [] k = "tip" -> "wellness_tip"

\* the calls of kind k after one more read of that kind was sent for user id
OneMoreRead(q, k, id) == Append(q[k], Call(ReadPath(k), id))

\* C1: a handleAuth that succeeds leaves the session {username, user_id} in
\* localStorage (it reads back as that session) and in the user state, with the
\* view on dashboard; logout leaves localStorage without the session, the user
\* state null and the view on home.
C1_SessionStoredThenCleared ==
    [][ /\ \A i \in 1..Len(pending["auth"]), res \in AuthResponses :
              (Lands("auth") /\ res.ok /\ HandleAuthDone(i, res)) =>
                  LET s == Session(pending["auth"][i].username, res.user_id) IN
                  /\ storage' # Null
                  /\ LoadUser(storage') = Some(s)
                  /\ user' = Some(s)
                  /\ page' = "dashboard"
        /\ Logout => (storage' = Null /\ user' = Null /\ page' = "home")
      ]_vars

\* a login as user 2 was followed by a logout: the reads sent for user 2 are
\* still outstanding, the session is gone and the landing screen is shown
C1_Witness ==
    /\ page = "home"
    /\ user = Null
    /\ storage = Null
    /\ \E k \in 1..Len(pending["moods"]) : pending["moods"][k].user_id = 2

\* C4: a handleAuth whose call is rejected alerts the detail of the server, or
\* "Authentication failed" without one, and changes nothing else: the view, the
\* user state and localStorage stay as they are and no call is sent again.
C4_AuthFailureOnlyAlerts ==
    [][ \A i \in 1..Len(pending["auth"]), res \in AuthResponses :
            (Lands("auth") /\ ~res.ok /\ HandleAuthDone(i, res)) =>
                /\ alertMsg' = IF res.detail # "" THEN res.detail
                               ELSE "Authentication failed"
                /\ page' = page
                /\ user' = user
                /\ storage' = storage
                /\ pending' = [pending EXCEPT !["auth"] = Remove(@, i)]
                /\ UNCHANGED <<username, activeSection, showProfile, moods, mood,
                               stress, sleep, summary, tip, status, timerVars>>
      ]_vars

\* the generic text was alerted on the login form, nothing is outstanding and
\* nobody is logged in
C4_Witness ==
    /\ alertMsg = "Authentication failed"
    /\ page = "login"
    /\ user = Null
    /\ storage = Null
    /\ pending["auth"] = <<>>

\* C10: choosing a section sends no call; the construction with a stored
\* session and every handleAuth that succeeds send exactly one GET of the mood
\* list, one of the weekly summary and one of the wellness tip, for the session
\* entered, and nothing else of the session handling sends a read.
C10_ReadsOncePerEntry ==
    /\ \A k \in Reads :
          pending[k] = IF user = Null THEN <<>>
                       ELSE OneMoreRead([r \in Reads |-> <<>>], k, user[1].user_id)
    /\ [][ /\ (\E key \in Sections : SetActiveSection(key)) => pending' = pending
           /\ \A i \in 1..Len(pending["auth"]), res \in AuthResponses :
                 (Lands("auth") /\ res.ok /\ HandleAuthDone(i, res)) =>
                     \A k \in Reads : pending'[k] = OneMoreRead(pending, k, user'[1].user_id)
           /\ (\E k \in Reads : pending'[k] # pending[k]) =>
                 \E i \in 1..Len(pending["auth"]), res \in AuthResponses :
                     res.ok /\ HandleAuthDone(i, res)
         ]_vars

\* user 2 logged in from the landing screen and then opened another section:
\* one read of each kind is outstanding, sent for user 2
C10_Witness ==
    /\ page = "dashboard"
    /\ activeSection = "guidance"
    /\ user # Null
    /\ \A k \in Reads : Len(pending[k]) = 1 /\ pending[k][1].user_id = 2

----------------------------------------------------------------------------
(* The mood form, checked under FormSpec *)

\* C5: submitMood with an empty mood field sends no call of any kind, alerts
\* "Please enter your mood!" and leaves the mood, stress and sleep inputs and
\* the mood list as they are.
C5_EmptyMoodSendsNothing ==
    [][ (mood = <<>> /\ SubmitMood) =>
            /\ pending' = pending
            /\ alertMsg' = "Please enter your mood!"
            /\ UNCHANGED <<mood, stress, sleep, moods>>
      ]_vars

\* the prompt was alerted with other stress and sleep values typed in and
\* nothing sent by the form
C5_Witness ==
    /\ alertMsg = "Please enter your mood!"
    /\ mood = <<>>
    /\ stress = "9"
    /\ sleep = "4"
    /\ pending["post"] = <<>>
    /\ \A k \in Reads : Len(pending[k]) = 1

----------------------------------------------------------------------------
(* The reads and the mood submission, checked under DataSpec *)

\* C6: a fetchSummary that fails sets the summary to "No summary available.",
\* a fetchTip that fails sets the tip to "No tip available.", and neither of
\* them, failing or not, changes the status, the mood list or the other text;
\* the status changes only when a fetchMoods completes, to connected when it
\* succeeds and to offline when it fails, and a fetchMoods that fails leaves
\* the mood list as it was.
C6_ReadsDegradeIndependently ==
    [][ /\ \A i \in 1..Len(pending["summary"]), res \in TextResponses(SummaryTexts) :
              (Lands("summary") /\ FetchSummaryDone(i, res)) =>
                  /\ ~res.ok => summary' = "No summary available."
                  /\ res.ok => summary' = res.text
                  /\ UNCHANGED <<status, moods, tip>>
        /\ \A i \in 1..Len(pending["tip"]), res \in TextResponses(TipTexts) :
              (Lands("tip") /\ FetchTipDone(i, res)) =>
                  /\ ~res.ok => tip' = "No tip available."
                  /\ res.ok => tip' = res.text
                  /\ UNCHANGED <<status, moods, summary>>
        /\ \A i \in 1..Len(pending["moods"]), res \in SomeMoodsResponses :
              (Lands("moods") /\ FetchMoodsDone(i, res)) =>
                  /\ (res.ok /\ res.isArray) => status' = "Connected to backend"
                  /\ ~(res.ok /\ res.isArray) =>
                        (status' = " Offline mode" /\ moods' = moods)
                  /\ UNCHANGED <<summary, tip>>
        /\ status' # status =>
              \E i \in 1..Len(pending["moods"]), res \in SomeMoodsResponses :
                  FetchMoodsDone(i, res)
      ]_vars

\* the summary read failed and the tip read succeeded, and a mood list fetched
\* earlier is still held after a later fetchMoods failed
C6_Witness ==
    /\ summary = "No summary available."
    /\ tip = "Breathe"
    /\ status = " Offline mode"
    /\ moods # <<>>

\* C7: submitMood with a mood typed in sends exactly one POST /moods and
\* nothing else, without clearing the input; when that POST succeeds the input
\* is cleared and exactly one GET of the mood list, one of the summary and one
\* of the tip are sent together; when it fails the input is kept, no read is
\* sent and the mood list, summary, tip and status stay as they are.  Nothing
\* else of the dashboard sends a read.
C7_SubmitThenRefresh ==
    [][ /\ (mood # <<>> /\ SubmitMood) =>
              /\ pending' = [pending EXCEPT !["post"] =
                                Append(@, Call("moods", user[1].user_id))]
              /\ UNCHANGED <<mood, moods, summary, tip, status>>
        /\ \A i \in 1..Len(pending["post"]) :
              /\ (Lands("post") /\ SubmitMoodDone(i, TRUE)) =>
                    /\ mood' = <<>>
                    /\ pending'["post"] = Remove(pending["post"], i)
                    /\ \A k \in Reads :
                          pending'[k] = OneMoreRead(pending, k, pending["post"][i].user_id)
                    /\ UNCHANGED <<moods, summary, tip, status>>
              /\ (Lands("post") /\ SubmitMoodDone(i, FALSE)) =>
                    /\ mood' = mood
                    /\ pending' = [pending EXCEPT !["post"] = Remove(@, i)]
                    /\ UNCHANGED <<moods, summary, tip, status>>
        /\ (\E k \in Reads : Len(pending'[k]) > Len(pending[k])) =>
              \E i \in 1..Len(pending["post"]) : SubmitMoodDone(i, TRUE)
      ]_vars

\* a submission succeeded before any read of the construction had landed: the
\* input is empty again and two reads of each kind are outstanding
C7_Witness ==
    /\ mood = <<>>
    /\ pending["post"] = <<>>
    /\ \A k \in Reads : Len(pending[k]) = 2
    /\ status = "Offline-ready environment..."

\* C9: nothing takes an outstanding call back: a call leaves the outstanding
\* ones only when its own response lands, whatever its place among them, and
\* the others stay outstanding; a landing response that succeeded sets its
\* field to its own payload, replacing what was held, also when a call sent
\* after it has landed before it.
C9_LastResponseWins ==
    [][ /\ \A k \in Kinds :
              \/ /\ Len(pending'[k]) >= Len(pending[k])
                 /\ pending[k] = SubSeq(pending'[k], 1, Len(pending[k]))
              \/ \E i \in 1..Len(pending[k]) :
                    /\ Len(pending'[k]) = Len(pending[k]) - 1
                    /\ Remove([j \in 1..Len(pending[k]) |->
                                  [pending[k][j] EXCEPT !.stale = FALSE]], i)
                         = [j \in 1..Len(pending[k]) - 1 |->
                               [pending'[k][j] EXCEPT !.stale = FALSE]]
                    /\ k = "moods" =>
                          \E res \in SomeMoodsResponses : FetchMoodsDone(i, res)
                    /\ k = "summary" =>
                          \E res \in TextResponses(SummaryTexts) :
                              FetchSummaryDone(i, res)
                    /\ k = "tip" =>
                          \E res \in TextResponses(TipTexts) : FetchTipDone(i, res)
                    /\ k = "post" => \E ok \in BOOLEAN : SubmitMoodDone(i, ok)
        /\ \A i \in 1..Len(pending["moods"]), res \in SomeMoodsResponses :
              (Lands("moods") /\ res.ok /\ res.isArray /\ FetchMoodsDone(i, res)) =>
                    moods' = FormatMoods(res.data)
        /\ \A i \in 1..Len(pending["summary"]), res \in TextResponses(SummaryTexts) :
              (Lands("summary") /\ res.ok /\ FetchSummaryDone(i, res)) => summary' = res.text
        /\ \A i \in 1..Len(pending["tip"]), res \in TextResponses(TipTexts) :
              (Lands("tip") /\ res.ok /\ FetchTipDone(i, res)) => tip' = res.text
      ]_vars

\* the mood list held is the payload of a GET /moods that was sent before
\* another one whose response had landed first
C9_Witness ==
    /\ late
    /\ status = "Connected to backend"
    /\ moods = FormatMoods(<<RawEntry(Some(<<"s", "a", "d">>))>>)
    /\ pending["moods"] = <<>>

----------------------------------------------------------------------------
(* The countdown readouts of the drills section, checked under TimerSpec *)

\* the duration the Start button of a readout passes to startTimer
SecsOf(id) == (CHOOSE b \in StartButtons : b.id = id).secs

\* the texts a countdown from n shows when nothing interferes
Countdown(n) == [k \in 1..(n + 1) |-> IF k <= n THEN SecsText(n - k + 1) ELSE DoneText]

Last(s) == s[Len(s)]

\* the tick sources of readout id that write to the element in the document
Running(id) == {k \in 1..Len(intervals) : intervals[k].id = id /\ intervals[k].attached}

\* C3: a readout started once with duration n and left to run shows "ns",
\* "(n-1)s", ..., "1s" and then the completion label, one text per tick of its
\* interval and nothing in between; with the completion label its interval is
\* cleared and the ticking mark removed, and the readout is not written again.
C3_CountdownSequence ==
    /\ [](\A id \in TimerIds :
            shown[id].starts = "once" =>
                LET n == SecsOf(id)
                    log == shown[id].log
                IN  /\ Len(log) \in 1..(n + 1)
                    /\ log = SubSeq(Countdown(n), 1, Len(log))
                    /\ els[id].present
                    /\ els[id].text = Last(log)
                    /\ IF Last(log) = DoneText
                       THEN Running(id) = {} /\ ~els[id].ticking
                       ELSE /\ els[id].ticking
                            /\ \E k \in 1..Len(intervals) :
                                  /\ Running(id) = {k}
                                  /\ Len(log) = 1 + (n - intervals[k].t)
                                  /\ intervals[k].due \in 0..Period)
    /\ [][\A id \in TimerIds :
            (shown[id].starts = "once" /\ shown'[id].starts = "once") =>
                /\ shown'[id].log # shown[id].log =>
                      \E k \in Running(id) :
                          /\ intervals[k].due = 0
                          /\ Tick(k)
                          /\ Len(shown'[id].log) = Len(shown[id].log) + 1
                /\ Last(shown[id].log) = DoneText => els'[id] = els[id]
         ]_vars

\* the focus readout ran from its start to the completion label while the
\* orbit readout, started once as well, shows its second text
C3_Witness ==
    /\ shown["focus-timer"] = [starts |-> "once", log |-> Countdown(FocusSecs)]
    /\ els["focus-timer"] = [present |-> TRUE, text |-> DoneText, ticking |-> FALSE]
    /\ shown["orbit-timer"].starts = "once"
    /\ Len(shown["orbit-timer"].log) = 2

\* C8: startTimer on a readout that is running writes the new duration at
\* once and adds a tick source, keeping every earlier one; each tick source
\* writes its own remaining count, or the completion label at zero, to the
\* readout whatever the others wrote, and removes the ticking mark at zero
\* only; a tick source is cleared only by its own tick reaching zero; a
\* readout that was started and has no tick source left shows the completion
\* label without the ticking mark.
C8_OverlappingTimers ==
    /\ [](\A id \in TimerIds :
            (els[id].present /\ shown[id].starts # "never" /\ Running(id) = {}) =>
                (els[id].text = DoneText /\ ~els[id].ticking))
    /\ [][ /\ \A b \in StartButtons :
                (Running(b.id) # {} /\ StartTimer(b.id, b.secs)) =>
                    /\ els'[b.id].text = SecsText(b.secs)
                    /\ els'[b.id].ticking
                    /\ Len(intervals') = Len(intervals) + 1
                    /\ SubSeq(intervals', 1, Len(intervals)) = intervals
                    /\ Last(intervals').t = b.secs
           /\ \A k \in 1..Len(intervals) :
                (intervals[k].due = 0 /\ Tick(k)) =>
                    LET int == intervals[k] IN
                    /\ int.attached =>
                          /\ els'[int.id].text = IF int.t > 1 THEN SecsText(int.t - 1)
                                                 ELSE DoneText
                          /\ els'[int.id].ticking = (int.t > 1 /\ els[int.id].ticking)
                    /\ intervals' = IF int.t > 1
                                    THEN [intervals EXCEPT ![k] =
                                             [@ EXCEPT !.t = int.t - 1, !.due = Period]]
                                    ELSE Remove(intervals, k)
           /\ Len(intervals') < Len(intervals) =>
                \E k \in 1..Len(intervals) :
                    intervals[k].due = 0 /\ intervals[k].t = 1 /\ Tick(k)
         ]_vars

\* the earlier tick source of the focus readout wrote the completion label and
\* removed the ticking mark, and the later one then wrote its count over it
C8_Witness ==
    /\ els["focus-timer"] = [present |-> TRUE, text |-> SecsText(1), ticking |-> FALSE]
    /\ shown["focus-timer"].starts = "again"
    /\ Running("focus-timer") # {}

----------------------------------------------------------------------------
(* The mood distribution of the pie chart, checked under AggSpec *)

Normalized(name) == ToLowerCase(Trim(name))

RECURSIVE SumValues(_)
SumValues(a) == IF a = <<>> THEN 0 ELSE a[1].value + SumValues(Tail(a))

Happy == <<"H", "a", "p", "p", "y">>

LowerHappy == <<"h", "a", "p", "p", "y">>

\* the list fetchMoods holds after GET /moods answered Happy, happy, AMIT
HappyHappyAmit ==
    FormatMoods(<<RawEntry(Some(Happy)), RawEntry(Some(LowerHappy)),
                  RawEntry(Some(AMIT))>>)

----------------------------------------------------------------------------
(* Leaving the drills section, checked under TimerSpec *)

\* C11 as stated: a tick source lives only while its readout is in the
\* document: when the drills section is left, by the feature bar or by logout,
\* the tick sources of its readouts are released, so that none is left to tick.
C11_ReleasedOnTeardown ==
    \A k \in 1..Len(intervals) :
        Mounted(page, activeSection) /\ intervals[k].attached

----------------------------------------------------------------------------
(* Logout and the reads of an earlier session, checked under LogoutSpec *)

\* the list fetchMoods holds after the GET /moods of user id was answered
ListOf(id) ==
    FormatMoods((CHOOSE r \in MoodsResponsesFor(id) : r.ok).data)

\* C12: logout empties localStorage, sets the user to null and the view to
\* home and leaves everything else as it is: the mood list, summary, tip,
\* status, the inputs and every outstanding call.  A login that follows leaves
\* the mood list, summary, tip and status of the session before in place; they
\* change only when a read lands, and a read that lands sets its field to its
\* own payload whichever user it was sent for and whoever is logged in.
C12_LogoutKeepsDataAndReads ==
    [][ /\ Logout =>
              /\ storage' = Null /\ user' = Null /\ page' = "home"
              /\ pending' = pending
              /\ UNCHANGED <<moods, summary, tip, status, mood, stress, sleep,
                             username, alertMsg, activeSection, showProfile, late>>
        /\ \A i \in 1..Len(pending["auth"]), res \in AuthResponses :
              (Lands("auth") /\ res.ok /\ HandleAuthDone(i, res)) =>
                  UNCHANGED <<moods, summary, tip, status>>
        /\ \A i \in 1..Len(pending["moods"]) :
              LET id == pending["moods"][i].user_id IN
              \A res \in MoodsResponsesFor(id) :
                  (Lands("moods") /\ res.ok /\ FetchMoodsDone(i, res)) =>
                      (moods' = ListOf(id) /\ user' = user)
        /\ \A i \in 1..Len(pending["summary"]), res \in TextResponses(SummaryTexts) :
              (Lands("summary") /\ res.ok /\ FetchSummaryDone(i, res)) =>
                  (summary' = res.text /\ user' = user)
        /\ moods' # moods => Lands("moods")
        /\ summary' # summary => Lands("summary")
        /\ tip' # tip => Lands("tip")
        /\ status' # status => Lands("moods")
      ]_vars

\* user 2 is logged in and the list of user 2 had landed, and then the read
\* sent for user 1 before the logout landed: the dashboard of user 2 holds the
\* list of user 1
C12_Witness ==
    /\ page = "dashboard"
    /\ user # Null
    /\ user[1].user_id = 2
    /\ moods = ListOf(1)
    /\ late
    /\ pending["moods"] = <<>>

====
